---- MODULE Spec2Model ----
(***************************************************************************)
(* Model of the Letterboxd diary plugin (src/main.ts): the diary merge of  *)
(* updateDiaryFile, the entity-note merge of createOrUpdateMovieNote and   *)
(* rebuildMovieNoteContent, and the sequencing of syncLetterboxd.          *)
(*                                                                         *)
(* Text is a sequence of tokens.  The characters the code inspects are     *)
(* tokens of their own ("\n", "\r", " ", "#", "-", ">"); every other token *)
(* is a run of characters the code never looks into.  A paragraph of a     *)
(* feed item's description holds no "\n": the feed separates paragraphs    *)
(* and line breaks with tags.                                              *)
(***************************************************************************)
EXTENDS Integers, Sequences, FiniteSets, TLC

VARIABLES
    settings,        \* LetterboxdPlugin.settings
    feed,            \* the items of the RSS channel, in feed order
    diary,           \* the diary file: <<>> when absent, <<text>> otherwise
    notes,           \* the movie notes: path -> <<>> or <<text>>
    folders,         \* the folders of the vault
    pc,              \* position of syncLetterboxd
    runs,            \* number of syncs started
    items,           \* syncLetterboxd: the sorted items
    idx,             \* syncLetterboxd: index of the movie-note loop
    movieNoteLinks,  \* syncLetterboxd: guid -> internal link
    diaryMdArr,      \* syncLetterboxd: the rendered diary entries
    frontMatter,     \* updateDiaryFile: the local frontMatter
    pending,         \* updateDiaryFile: callbacks scheduled and not yet run
    hist,            \* history of the current sync (observations only)
    note,            \* entity-note merge: the note under merge, <<>> or <<text>>
    nhist            \* entity-note merge: history (observations only)

vars == <<settings, feed, diary, notes, folders, pc, runs, items, idx,
          movieNoteLinks, diaryMdArr, frontMatter, pending, hist, note, nhist>>

syncVars == <<settings, feed, diary, notes, folders, pc, runs, items, idx,
              movieNoteLinks, diaryMdArr, frontMatter, pending, hist>>

----------------------------------------------------------------------------
(* Bounds *)

MaxFeed == 2      \* longest feed
MaxSyncs == 2     \* syncs per behaviour
MaxMerges == 3    \* entity-note merges per behaviour

----------------------------------------------------------------------------
(* String primitives of the JavaScript runtime, on token sequences *)

NL == "\n"

WhiteSpace == {" ", "\n", "\r", "\t"}

\* s.startsWith(p)
StartsWith(s, p) == Len(s) >= Len(p) /\ SubSeq(s, 1, Len(p)) = p

\* s.endsWith(p)
EndsWith(s, p) == Len(s) >= Len(p) /\ SubSeq(s, Len(s) - Len(p) + 1, Len(s)) = p

\* positions at which p occurs in s
Occurrences(s, p) == {i \in 1..(Len(s) - Len(p) + 1) : SubSeq(s, i, i + Len(p) - 1) = p}

\* s.includes(p), regex.test(s) for a literal regex
Includes(s, p) == Occurrences(s, p) # {}

Min(S) == CHOOSE m \in S : \A n \in S : m <= n

\* s.split(p) for a non-empty literal separator p
RECURSIVE SplitOn(_, _)
SplitOn(s, p) ==
    LET occ == Occurrences(s, p)
    IN  IF occ = {} THEN <<s>>
        ELSE LET k == Min(occ)
             IN  <<SubSeq(s, 1, k - 1)>> \o SplitOn(SubSeq(s, k + Len(p), Len(s)), p)

\* arr.join(p)
RECURSIVE JoinWith(_, _)
JoinWith(arr, p) ==
    IF Len(arr) = 0 THEN <<>>
    ELSE IF Len(arr) = 1 THEN arr[1]
    ELSE arr[1] \o p \o JoinWith(Tail(arr), p)

Split(s) == SplitOn(s, <<NL>>)

Join(arr) == JoinWith(arr, <<NL>>)

\* s.trimEnd()
RECURSIVE TrimEnd(_)
TrimEnd(s) ==
    IF Len(s) > 0 /\ s[Len(s)] \in WhiteSpace THEN TrimEnd(SubSeq(s, 1, Len(s) - 1)) ELSE s

\* s.trimStart()
RECURSIVE TrimStart(_)
TrimStart(s) ==
    IF Len(s) > 0 /\ s[1] \in WhiteSpace THEN TrimStart(Tail(s)) ELSE s

\* s.trim()
Trim(s) == TrimStart(TrimEnd(s))

\* the elements of an array
Range(arr) == {arr[i] : i \in 1..Len(arr)}

\* number of elements of arr equal to e
Count(arr, e) == Cardinality({i \in 1..Len(arr) : arr[i] = e})

\* s.replace(/\n{3,}/g, '\n\n'): of a run of three or more "\n" two are left
CollapseNewlines(s) ==
    LET marked == [i \in 1..Len(s) |->
                      [tok |-> s[i],
                       drop |-> i >= 3 /\ s[i] = NL /\ s[i - 1] = NL /\ s[i - 2] = NL]]
        kept == SelectSeq(marked, LAMBDA m : ~m.drop)
    IN  [i \in 1..Len(kept) |-> kept[i].tok]

----------------------------------------------------------------------------
(* Feed items (RSSEntry, src/main.ts:25-38).  An optional field is <<>> when *)
(* the feed omits it and <<v>> otherwise.  pubDate and watchedDate are day  *)
(* numbers; memberRating counts half stars; paragraphs holds the            *)
(* textContent of every <p> of the description, in document order.          *)

Some(v) == <<v>>
None == <<>>

TitleA == <<"Alien">>
TitleB == <<"Fast", " ", "&amp;", " ", "Furious">>

WatchedNotice == <<"Watched on", " ", "Friday">>

\* first watch of film A: rated, reviewed in two paragraphs, with poster
Item1 == [guid |-> <<"letterboxd", "review", "101">>, link |-> "https://lb/a1",
          pubDate |-> 1, watchedDate |-> Some(1), rewatch |-> "No",
          filmTitle |-> Some(TitleA), filmYear |-> Some("1979"),
          memberRating |-> Some(8),
          paragraphs |-> << <<>>, <<"Great">>, <<"Scary", " ", "too">> >>,
          img |-> Some("https://img/a")]

\* watch of film B: no rating, no review (the site's watch notice only)
Item2 == [guid |-> <<"letterboxd", "watch", "102">>, link |-> "https://lb/b1",
          pubDate |-> 2, watchedDate |-> Some(2), rewatch |-> "No",
          filmTitle |-> Some(TitleB), filmYear |-> Some("2001"),
          memberRating |-> None,
          paragraphs |-> << <<>>, WatchedNotice >>,
          img |-> Some("https://img/b")]

\* film A logged a second time for the same day with the same rating
Item3 == [guid |-> <<"letterboxd", "watch", "103">>, link |-> "https://lb/a1",
          pubDate |-> 3, watchedDate |-> Some(1), rewatch |-> "No",
          filmTitle |-> Some(TitleA), filmYear |-> Some("1979"),
          memberRating |-> Some(8),
          paragraphs |-> << <<>>, WatchedNotice >>,
          img |-> Some("https://img/a")]

\* film A marked as watched without a watched date, rated 3.5, reviewed
Item4 == [guid |-> <<"letterboxd", "review", "104">>, link |-> "https://lb/a2",
          pubDate |-> 4, watchedDate |-> None, rewatch |-> "Yes",
          filmTitle |-> Some(TitleA), filmYear |-> Some("1979"),
          memberRating |-> Some(7),
          paragraphs |-> << <<"Again">> >>,
          img |-> None]

\* an item without letterboxd:filmTitle
Item5 == [guid |-> <<"letterboxd", "watch", "105">>, link |-> "https://lb/x1",
          pubDate |-> 2, watchedDate |-> Some(2), rewatch |-> "No",
          filmTitle |-> None, filmYear |-> Some("1999"),
          memberRating |-> None,
          paragraphs |-> << WatchedNotice >>,
          img |-> None]

\* an item without letterboxd:filmYear
Item6 == [guid |-> <<"letterboxd", "watch", "106">>, link |-> "https://lb/b2",
          pubDate |-> 3, watchedDate |-> Some(3), rewatch |-> "No",
          filmTitle |-> Some(TitleB), filmYear |-> None,
          memberRating |-> None,
          paragraphs |-> << WatchedNotice >>,
          img |-> None]

\* film A reviewed with a text that quotes a heading of the note
Item7 == [guid |-> <<"letterboxd", "review", "107">>, link |-> "https://lb/a3",
          pubDate |-> 4, watchedDate |-> Some(4), rewatch |-> "Yes",
          filmTitle |-> Some(TitleA), filmYear |-> Some("1979"),
          memberRating |-> None,
          paragraphs |-> << <<"See", " ", "#", "#", "#", " ", "Activity", " ", "below">> >>,
          img |-> None]

\* film A reviewed with a text that quotes the Review heading of the note
Item8 == [guid |-> <<"letterboxd", "review", "108">>, link |-> "https://lb/a4",
          pubDate |-> 4, watchedDate |-> Some(3), rewatch |-> "Yes",
          filmTitle |-> Some(TitleA), filmYear |-> Some("1979"),
          memberRating |-> None,
          paragraphs |-> << <<"Read", " ", "my", " ", "#", "#", "#", " ", "Review", " ",
                              "of", " ", "Aliens">> >>,
          img |-> None]

FeedItems == {Item1, Item2, Item3, Item4, Item5, Item6}

\* moment(day).format('YYYY-MM-DD')
DateStr == <<"2024-01-01", "2024-01-02", "2024-01-03", "2024-01-04">>

\* the date string as the feed carries it
RawDate == <<"Mon, 1 Jan 2024", "Tue, 2 Jan 2024", "Wed, 3 Jan 2024", "Thu, 4 Jan 2024">>

\* `${rating}` for a rating given in half stars
RatingStr(h) == IF h % 2 = 0
                THEN <<"0", "1", "2", "3", "4", "5">>[h \div 2 + 1]
                ELSE <<"0.5", "1.5", "2.5", "3.5", "4.5">>[h \div 2 + 1]

\* ch.repeat(n)
RECURSIVE Repeat(_, _)
Repeat(ch, n) == IF n = 0 THEN <<>> ELSE <<ch>> \o Repeat(ch, n - 1)

\* "RSQUO" stands for the right single quotation mark
DecodeToken(t) == CASE t = "&amp;" -> "&"
                    [] t = "&lt;" -> "<"
                    [] t = "&gt;" -> ">"
                    [] t = "&quot;" -> "\""
                    [] t = "&#039;" -> "'"
                    [] t = "RSQUO" -> "'"
                    [] OTHER -> t

decodeHtmlEntities(text) == [i \in 1..Len(text) |-> DecodeToken(text[i])]

\* A frontmatter object is the sequence of its entries in insertion order;
\* a scalar entry carries value, an array entry carries elems.
Scalar(k, v) == [key |-> k, isArray |-> FALSE, value |-> v, elems |-> <<>>]
Array(k, e) == [key |-> k, isArray |-> TRUE, value |-> <<>>, elems |-> e]

objToFrontmatter(obj) ==
    LET Entry(kv) ==
            IF kv.isArray
            THEN <<kv.key, ":", NL>>
                 \o JoinWith([i \in 1..Len(kv.elems) |-> <<" ", " ", "-", " ">> \o kv.elems[i] \o <<NL>>], <<>>)
            ELSE <<kv.key, ":", " ">> \o kv.value \o <<NL>>
    IN  <<"---", NL>> \o JoinWith([i \in 1..Len(obj) |-> Entry(obj[i])], <<>>) \o <<"---", NL>>

starParser(rating, star) ==
    IF rating = None THEN <<>>
    ELSE LET h == rating[1]
         IN  CASE star = 1 -> <<"(">> \o Repeat("BLACKSTAR", h \div 2)
                              \o (IF h % 2 # 0 THEN <<"HALF">> ELSE <<>>) \o <<")">>
               [] star = 2 -> <<"(">> \o Repeat("STAR", h \div 2)
                              \o (IF h % 2 # 0 THEN <<"HALF">> ELSE <<>>) \o <<")">>
               [] OTHER -> <<"(", RatingStr(h), " ", "stars", ")">>

getFormattedDate(day, dateFormat) ==
    IF dateFormat # "" THEN <<DateStr[day]>> ELSE <<RawDate[day]>>

NonBlank(text) == text # <<>> /\ Trim(text) # <<>>

extractReview(paragraphs) ==
    LET reviewText == JoinWith(SelectSeq(paragraphs, NonBlank), <<NL, NL>>)
    IN  IF Includes(reviewText, <<"Watched on">>) THEN <<>> ELSE reviewText

extractReviewBlockquote(paragraphs) ==
    LET trimmed == [i \in 1..Len(paragraphs) |-> Trim(paragraphs[i])]
        Keep(text) == text # <<>> /\ ~Includes(text, <<"Watched on">>)
        kept == SelectSeq(trimmed, Keep)
    IN  IF Len(kept) > 0
        THEN JoinWith([i \in 1..Len(kept) |-> <<">", " ">> \o kept[i]], <<NL, ">", NL>>)
        ELSE <<>>

\* defined exactly when generateDiaryEntry returns instead of throwing
CanRender(item) == item.filmTitle # None

generateDiaryEntry(s, item, internalLink) ==
    LET img == item.img
        extracted == extractReview(item.paragraphs)
        reviewText == IF extracted # <<>>
                      THEN JoinWith(SplitOn(extracted, <<NL, NL>>), <<"\r", " ", ">", " ", "\r", " ", ">", " ">>)
                      ELSE extracted
        filmTitle == decodeHtmlEntities(item.filmTitle[1])
        stars == starParser(item.memberRating, s.stars)
        reference == IF s.addReferenceId THEN <<" ", "^letterboxd", item.guid[3]>> ELSE <<>>
        link == IF internalLink # <<>> THEN internalLink
                ELSE <<"[">> \o filmTitle \o <<"](", item.link, ")">>
        watched == item.watchedDate # None
        displayDate ==
            IF watched
            THEN (IF s.linkDate
                  THEN <<"[[">> \o getFormattedDate(item.watchedDate[1], s.dateFormat) \o <<"]]">>
                  ELSE getFormattedDate(item.watchedDate[1], s.displayDateFormat))
            ELSE getFormattedDate(item.pubDate, s.displayDateFormat)
        watchedPhrase ==
            (IF watched THEN <<"Watched", " ">> ELSE <<"Marked as watched", " ">>)
            \o link \o <<" ">> \o stars \o <<" ", "on", " ">> \o displayDate
        head == <<">", " ", "[!letterboxd]+", " ">>
                \o (IF item.memberRating # None \/ reviewText # <<>>
                    THEN <<"Review:", " ">> ELSE <<"Watched:", " ">>)
                \o <<" ">> \o link \o <<" ">> \o stars \o <<" ", "-", " ">> \o displayDate
                \o <<" ", "\r", ">", " ">>
    IN  CASE s.callout = "List" -> <<"-", " ">> \o watchedPhrase
          [] s.callout = "ListReview" ->
                <<"-", " ">> \o watchedPhrase \o <<" ">>
                \o (IF reviewText # <<>> THEN <<"\r", " ", ">">> \o reviewText \o <<NL>> ELSE <<>>)
          [] s.callout = "Callout" ->
                head \o reviewText \o reference \o <<NL>>
          [] s.callout = "CalloutPoster" ->
                head
                \o (IF reviewText # <<>>
                    THEN (IF img # None
                          THEN <<"![">> \o filmTitle \o <<"|200](", img[1], ")", " ", "\r", ">", " ">> \o reviewText
                          ELSE reviewText)
                    ELSE <<>>)
                \o reference \o <<NL>>

----------------------------------------------------------------------------
(* Frontmatter of a document, as the vault's frontmatter processor reads it *)

\* index of the line closing a frontmatter block that opens on line 1, or 0
FrontMatterEnd(lines) ==
    IF Len(lines) >= 2 /\ lines[1] = <<"---">>
       /\ \E i \in 2..Len(lines) : lines[i] = <<"---">>
    THEN Min({i \in 2..Len(lines) : lines[i] = <<"---">>})
    ELSE 0

RECURSIVE ParseEntries(_, _)
ParseEntries(lines, acc) ==
    IF Len(lines) = 0 THEN acc
    ELSE LET l == lines[1]
         IN  IF StartsWith(l, <<" ", " ", "-", " ">>) /\ Len(acc) > 0 /\ acc[Len(acc)].isArray
             THEN ParseEntries(Tail(lines),
                      [acc EXCEPT ![Len(acc)].elems = Append(@, SubSeq(l, 5, Len(l)))])
             ELSE IF Len(l) = 2 /\ l[2] = ":"
             THEN ParseEntries(Tail(lines), Append(acc, Array(l[1], <<>>)))
             ELSE IF Len(l) >= 3 /\ l[2] = ":" /\ l[3] = " "
             THEN ParseEntries(Tail(lines), Append(acc, Scalar(l[1], SubSeq(l, 4, Len(l)))))
             ELSE ParseEntries(Tail(lines), acc)

\* the frontmatter object of a document; <<>> when it has no frontmatter
ParseFrontMatter(text) ==
    LET lines == Split(text)
        e == FrontMatterEnd(lines)
    IN  IF e = 0 THEN <<>> ELSE ParseEntries(SubSeq(lines, 2, e - 1), <<>>)

\* the text of a document after its frontmatter block
BodyOf(text) ==
    LET lines == Split(text)
        e == FrontMatterEnd(lines)
    IN  IF e = 0 THEN text ELSE Join(SubSeq(lines, e + 1, Len(lines)))

\* fm[key] = value
RECURSIVE SetKey(_, _, _)
SetKey(fm, k, v) ==
    IF Len(fm) = 0 THEN <<Scalar(k, v)>>
    ELSE IF fm[1].key = k THEN <<Scalar(k, v)>> \o Tail(fm)
    ELSE <<fm[1]>> \o SetKey(Tail(fm), k, v)

\* delete fm[key]
DeleteKey(fm, k) == SelectSeq(fm, LAMBDA kv : kv.key # k)

----------------------------------------------------------------------------
(* Movie notes *)

mainHeader == <<"#", "#", " ", "Letterboxd">>
reviewHeader == <<"#", "#", "#", " ", "Review">>
activityHeader == <<"#", "#", "#", " ", "Activity">>

\* line.match(/^#{1,2} /)
IsH1OrH2(line) ==
    \/ StartsWith(line, <<"#", " ">>)
    \/ StartsWith(line, <<"#", "#", " ">>)

\* the lines of rawLines before the first whose trimmed text starts with '#'
UntilHeader(rawLines) ==
    LET stops == {i \in 1..Len(rawLines) : StartsWith(Trim(rawLines[i]), <<"#">>)}
    IN  IF stops = {} THEN rawLines ELSE SubSeq(rawLines, 1, Min(stops) - 1)

\* src/main.ts:447-466
ParseActivities(sectionContent) ==
    IF Includes(sectionContent, activityHeader)
    THEN LET parts == SplitOn(sectionContent, activityHeader)
         IN  IF Len(parts) > 1
             THEN LET block == UntilHeader(Split(parts[2]))
                      trimmed == [i \in 1..Len(block) |-> Trim(block[i])]
                  IN  SelectSeq(trimmed, LAMBDA l : StartsWith(l, <<"-">>))
             ELSE <<>>
    ELSE <<>>

\* src/main.ts:468-471
AddActivity(activities, activityLine) ==
    IF ~\E i \in 1..Len(activities) : activities[i] = Trim(activityLine)
    THEN Append(activities, activityLine)
    ELSE activities

\* src/main.ts:473-491
ParseReview(sectionContent, reviewBlock) ==
    IF reviewBlock # <<>> THEN reviewBlock
    ELSE IF Includes(sectionContent, reviewHeader)
    THEN LET parts == SplitOn(sectionContent, reviewHeader)
         IN  IF Len(parts) > 1
             THEN Trim(Join(SelectSeq(UntilHeader(Split(parts[2])),
                                      LAMBDA l : Trim(l) # <<>>)))
             ELSE reviewBlock
    ELSE reviewBlock

\* the transform rebuildMovieNoteContent hands to vault.process
rebuildMovieNoteContent(content, reviewBlock, activityLine) ==
    LET lines == Split(content)
        found == {i \in 1..Len(lines) : Trim(lines[i]) = mainHeader}
    IN  IF found = {}
        THEN LET newSection ==
                    << <<>>, mainHeader >>
                    \o (IF reviewBlock # <<>> THEN << <<>>, reviewHeader, <<>>, reviewBlock >> ELSE <<>>)
                    \o << <<>>, activityHeader, <<>>, activityLine >>
             IN  TrimEnd(content) \o <<NL>> \o Join(newSection)
        ELSE LET mainHeaderIdx == Min(found)
                 ends == {i \in (mainHeaderIdx + 1)..Len(lines) : IsH1OrH2(lines[i])}
                 sectionEndIdx == IF ends = {} THEN Len(lines) + 1 ELSE Min(ends)
                 sectionLines == SubSeq(lines, mainHeaderIdx + 1, sectionEndIdx - 1)
                 sectionContent == Join(sectionLines)
                 activities == AddActivity(ParseActivities(sectionContent), activityLine)
                 finalReview == ParseReview(sectionContent, reviewBlock)
                 newSectionLines ==
                    << mainHeader >>
                    \o (IF finalReview # <<>> THEN << <<>>, reviewHeader, <<>>, finalReview >> ELSE <<>>)
                    \o << <<>>, activityHeader, <<>>, Join(activities), <<>> >>
                 before == SubSeq(lines, 1, mainHeaderIdx - 1)
                 after == SubSeq(lines, sectionEndIdx, Len(lines))
             IN  CollapseNewlines(Join(before \o newSectionLines \o after))

\* characters removed from a title to make a file name
UnsafeChars == {":", "/", "\\", "|", "?", "*", "<", ">", "\""}

\* defined exactly when createOrUpdateMovieNote returns instead of throwing
CanMakeNote(item) == item.filmTitle # None /\ item.filmYear # None

\* src/main.ts:325-338, with movieNoteTemplate 'Movies/{{title}}'
NotePath(item) ==
    LET title == decodeHtmlEntities(item.filmTitle[1])
        safeTitle == SelectSeq(title, LAMBDA t : t \notin UnsafeChars)
    IN  <<"Movies", "/">> \o safeTitle \o <<".md">>

\* src/main.ts:340-351: the folders createOrUpdateMovieNote makes sure exist
NoteFolders(path) ==
    LET slashes == {i \in 1..Len(path) : path[i] = "/"}
    IN  {SubSeq(path, 1, i - 1) : i \in slashes} \ {<<>>}

\* src/main.ts:357-372
ActivityLine(s, item) ==
    LET watched == item.watchedDate # None
        activityDateLink ==
            IF watched
            THEN (IF s.linkDate
                  THEN <<"[[">> \o getFormattedDate(item.watchedDate[1], s.dateFormat) \o <<"]]">>
                  ELSE getFormattedDate(item.watchedDate[1], s.displayDateFormat))
            ELSE getFormattedDate(item.pubDate, s.displayDateFormat)
        activityDatePrefix == IF watched THEN "**Watched:**" ELSE "**Marked as watched:**"
        score == IF item.memberRating # None THEN RatingStr(item.memberRating[1]) ELSE "-"
    IN  <<"-", " ", activityDatePrefix, " ">> \o activityDateLink
        \o <<" ", "**Rating:**", " ", score, " ", "**Rewatch:**", " ", item.rewatch>>

\* src/main.ts:376-382: the frontmatter update of an existing note
UpdateNoteFrontMatter(text, item) ==
    LET fm0 == ParseFrontMatter(text)
        fm1 == SetKey(fm0, "title", decodeHtmlEntities(item.filmTitle[1]))
        fm2 == SetKey(fm1, "source", <<item.link>>)
        fm3 == SetKey(fm2, "year", <<item.filmYear[1]>>)
        fm4 == IF item.memberRating # None
               THEN SetKey(fm3, "score", <<RatingStr(item.memberRating[1])>>) ELSE fm3
        fm5 == DeleteKey(fm4, "letterboxd_url")
    IN  objToFrontmatter(fm5) \o BodyOf(text)

\* src/main.ts:387-406: the text of a newly created note
NewNoteContent(s, item) ==
    LET title == decodeHtmlEntities(item.filmTitle[1])
        fmObj == <<Scalar("title", title), Scalar("source", <<item.link>>),
                   Scalar("year", <<item.filmYear[1]>>)>>
                 \o (IF item.memberRating # None
                     THEN <<Scalar("score", <<RatingStr(item.memberRating[1])>>)>> ELSE <<>>)
        reviewBlock == extractReviewBlockquote(item.paragraphs)
    IN  objToFrontmatter(fmObj) \o <<NL>> \o mainHeader
        \o (IF reviewBlock # <<>> THEN <<NL, NL>> \o reviewHeader \o <<NL, NL>> \o reviewBlock ELSE <<>>)
        \o <<NL, NL>> \o activityHeader \o <<NL, NL>> \o ActivityLine(s, item)

\* the note file after createOrUpdateMovieNote(item); file is <<>> or <<text>>
createOrUpdateMovieNote(s, file, item) ==
    IF file # None
    THEN Some(rebuildMovieNoteContent(UpdateNoteFrontMatter(file[1], item),
                                      extractReviewBlockquote(item.paragraphs),
                                      ActivityLine(s, item)))
    ELSE Some(NewNoteContent(s, item))

\* src/main.ts:409: the link createOrUpdateMovieNote returns
InternalLink(item) ==
    LET path == NotePath(item)
        ext == Min({i \in 1..Len(path) : path[i] = ".md"})
    IN  <<"[[">> \o SubSeq(path, 1, ext - 1) \o SubSeq(path, ext + 1, Len(path)) \o <<"|">>
        \o decodeHtmlEntities(item.filmTitle[1]) \o <<"]]">>

----------------------------------------------------------------------------
(* The diary *)

\* src/main.ts:304-313: the lines left after shifting the frontmatter away
StripFrontMatter(diaryContentsArr) ==
    LET marks == {i \in 1..Len(diaryContentsArr) : diaryContentsArr[i] = <<"---">>}
    IN  IF Cardinality(marks) >= 2
        THEN SubSeq(diaryContentsArr, Min(marks \ {Min(marks)}) + 1, Len(diaryContentsArr))
        ELSE <<>>

\* faulty variant: the filter against the existing lines is missing
NewEntries_NoFilter(diaryContentsArr, newDiaryEntries) == newDiaryEntries

\* src/main.ts:314-315
NewEntries(diaryContentsArr, newDiaryEntries) ==
    SelectSeq(newDiaryEntries, LAMBDA entry : entry \notin Range(diaryContentsArr))

\* src/main.ts:316-318
FinalEntries(sort, diaryContentsArr, newEntries) ==
    IF sort = "Old" THEN diaryContentsArr \o newEntries ELSE newEntries \o diaryContentsArr

\* src/main.ts:301-320: the transform updateDiaryFile hands to vault.process
DiaryTransform(s, fm, data, newDiaryEntries) ==
    LET split == Split(data)
        diaryContentsArr == IF Len(fm) > 0 THEN StripFrontMatter(split) ELSE split
        newEntries == NewEntries(diaryContentsArr, newDiaryEntries)
        finalEntries == FinalEntries(s.sort, diaryContentsArr, newEntries)
    IN  IF Len(fm) > 0 THEN fm \o Join(finalEntries) ELSE Join(finalEntries)

\* src/main.ts:298-300: the callback updateDiaryFile hands to processFrontMatter
FrontMatterOf(data) == IF Len(data) > 0 THEN objToFrontmatter(data) ELSE <<>>

\* src/main.ts:292-294: the folders updateDiaryFile creates for a new diary
DiaryFolders(path) ==
    LET pathArray == SplitOn(path, <<"/">>)
        popped == SubSeq(pathArray, 1, Len(pathArray) - 1)
    IN  IF Len(popped) > 1 THEN {JoinWith(popped, <<"/">>)} ELSE {}

\* faulty variant: the items stay in the order of the channel
SortItems_Unsorted(arr, sort) == arr

\* src/main.ts:262-266: items.sort by pubDate, ascending for 'Old'
RECURSIVE SortItems(_, _)
SortItems(arr, sort) ==
    IF Len(arr) = 0 THEN <<>>
    ELSE LET sorted == SortItems(SubSeq(arr, 1, Len(arr) - 1), sort)
             x == arr[Len(arr)]
             After(y) == IF sort = "Old" THEN y.pubDate > x.pubDate ELSE y.pubDate < x.pubDate
             later == {i \in 1..Len(sorted) : After(sorted[i])}
             k == IF later = {} THEN Len(sorted) + 1 ELSE Min(later)
         IN  SubSeq(sorted, 1, k - 1) \o <<x>> \o SubSeq(sorted, k, Len(sorted))

----------------------------------------------------------------------------
(* Initial states *)

DefaultSettings ==
    [sort |-> "Old", callout |-> "List", stars |-> 0, addReferenceId |-> FALSE,
     linkDate |-> TRUE, createMovieNotes |-> FALSE,
     dateFormat |-> "YYYY-MM-DD", displayDateFormat |-> "YYYY-MM-DD",
     path |-> <<"Letterboxd Diary">>]

DiaryPaths == {<<"Letterboxd Diary">>, <<"Films", "/", "Diary">>,
               <<"A", "/", "B", "/", "Diary">>}

SettingsSet ==
    {[DefaultSettings EXCEPT !.sort = so, !.callout = c, !.createMovieNotes = m, !.path = p] :
        so \in {"Old", "New"}, c \in {"List", "ListReview", "Callout", "CalloutPoster"},
        m \in BOOLEAN, p \in DiaryPaths}

\* feeds: one to MaxFeed distinct items
Feeds ==
    {f \in UNION {[1..n -> FeedItems] : n \in 1..MaxFeed} :
        \A i, j \in 1..Len(f) : i # j => f[i] # f[j]}

UserLine == <<"My", " ", "films">>

DiaryFrontMatter == <<Scalar("title", <<"Diary">>), Array("tags", << <<"film">>, <<"log">> >>)>>

\* the diary before the first sync: absent, empty, two entries written by an
\* earlier sync, or frontmatter followed by a user line and one entry
InitialDiaries ==
    {None,
     Some(<<>>),
     Some(Join(<<generateDiaryEntry(DefaultSettings, Item1, <<>>),
                 generateDiaryEntry(DefaultSettings, Item2, <<>>)>>)),
     Some(objToFrontmatter(DiaryFrontMatter)
          \o Join(<<UserLine, generateDiaryEntry(DefaultSettings, Item1, <<>>)>>))}

NotePaths == {NotePath(it) : it \in {i \in FeedItems : i.filmTitle # None}}

NoHist == [before |-> None, writes |-> 0, noteLog |-> <<>>, repeat |-> FALSE]

IdleNote == /\ note = None
            /\ nhist = [merges |-> 0]

SyncInit ==
    /\ settings \in SettingsSet
    /\ feed \in Feeds
    /\ diary \in InitialDiaries
    /\ diary # None => settings.path = DefaultSettings.path
    /\ notes = [p \in NotePaths |-> None]
    /\ folders = {}
    /\ pc = "idle"
    /\ runs = 0
    /\ items = <<>>
    /\ idx = 1
    /\ movieNoteLinks = <<>>
    /\ diaryMdArr = <<>>
    /\ frontMatter = <<>>
    /\ pending = {}
    /\ hist = NoHist

Init == SyncInit /\ IdleNote

----------------------------------------------------------------------------
(* syncLetterboxd *)

\* faulty variant: the entries are rendered without merging the movie notes first
StartSync_RenderFirst ==
    /\ pc \in {"idle", "failed"}
    /\ runs < MaxSyncs
    /\ runs' = runs + 1
    /\ items' = SortItems(feed, settings.sort)
    /\ movieNoteLinks' = <<>>
    /\ idx' = 1
    /\ diaryMdArr' = <<>>
    /\ pc' = "render"
    /\ hist' = [before |-> diary, writes |-> 0, noteLog |-> <<>>, repeat |-> hist.writes = 1]
    /\ UNCHANGED <<settings, feed, diary, notes, folders, frontMatter, pending, note, nhist>>

\* src/main.ts:253-275: fetch, parse and sort the feed
StartSync ==
    /\ pc \in {"idle", "failed"}
    /\ runs < MaxSyncs
    /\ runs' = runs + 1
    /\ items' = SortItems(feed, settings.sort)
    /\ movieNoteLinks' = <<>>
    /\ idx' = 1
    /\ diaryMdArr' = <<>>
    /\ pc' = IF settings.createMovieNotes THEN "notes" ELSE "render"
    /\ hist' = [before |-> diary, writes |-> 0, noteLog |-> <<>>, repeat |-> hist.writes = 1]
    /\ UNCHANGED <<settings, feed, diary, notes, folders, frontMatter, pending, note, nhist>>

\* src/main.ts:271-274: one iteration of the movie-note loop
MovieNoteStep ==
    /\ pc = "notes"
    /\ idx <= Len(items)
    /\ LET item == items[idx]
       IN  IF CanMakeNote(item)
           THEN LET path == NotePath(item)
                IN  /\ folders' = folders \cup NoteFolders(path)
                    /\ notes' = [notes EXCEPT ![path] = createOrUpdateMovieNote(settings, @, item)]
                    /\ movieNoteLinks' = (item.guid :> InternalLink(item)) @@ movieNoteLinks
                    /\ hist' = [hist EXCEPT !.noteLog = Append(@, item.guid)]
                    /\ idx' = idx + 1
                    /\ pc' = IF idx = Len(items) THEN "render" ELSE "notes"
           ELSE \* decodeHtmlEntities or toString throws: the sync is rejected
                /\ pc' = "failed"
                /\ UNCHANGED <<folders, notes, movieNoteLinks, hist, idx>>
    /\ UNCHANGED <<settings, feed, diary, runs, items, diaryMdArr, frontMatter, pending, note, nhist>>

\* src/main.ts:278-281: render the diary entries
RenderEntries ==
    /\ pc = "render"
    /\ IF \A i \in 1..Len(items) : CanRender(items[i])
       THEN /\ diaryMdArr' =
                 [i \in 1..Len(items) |->
                     generateDiaryEntry(settings, items[i],
                        IF items[i].guid \in DOMAIN movieNoteLinks
                        THEN movieNoteLinks[items[i].guid] ELSE <<>>)]
            /\ pc' = "update"
       ELSE \* decodeHtmlEntities throws: the sync is rejected
            /\ pc' = "failed"
            /\ UNCHANGED diaryMdArr
    /\ UNCHANGED <<settings, feed, diary, notes, folders, runs, items, idx,
                   movieNoteLinks, frontMatter, pending, hist, note, nhist>>

\* src/main.ts:287-301: updateDiaryFile up to its return
UpdateDiaryFile ==
    /\ pc = "update"
    /\ IF diary = None
       THEN /\ folders' = folders \cup DiaryFolders(settings.path)
            /\ diary' = Some(Join(diaryMdArr))
            /\ hist' = [hist EXCEPT !.writes = @ + 1]
            /\ pc' = "idle"
            /\ UNCHANGED <<frontMatter, pending>>
       ELSE /\ frontMatter' = <<>>
            /\ pending' = {"frontMatter", "process"}
            /\ pc' = "callbacks"
            /\ UNCHANGED <<folders, diary, hist>>
    /\ UNCHANGED <<settings, feed, notes, runs, items, idx, movieNoteLinks, diaryMdArr,
                   note, nhist>>

\* src/main.ts:298-300: the callback of processFrontMatter runs
FrontMatterCallback ==
    /\ pc = "callbacks"
    /\ "frontMatter" \in pending
    /\ frontMatter' = FrontMatterOf(ParseFrontMatter(diary[1]))
    /\ pending' = pending \ {"frontMatter"}
    /\ pc' = IF pending' = {} THEN "idle" ELSE "callbacks"
    /\ UNCHANGED <<settings, feed, diary, notes, folders, runs, items, idx,
                   movieNoteLinks, diaryMdArr, hist, note, nhist>>

\* src/main.ts:301-320: the callback of vault.process runs and the file is written
ProcessCallback ==
    /\ pc = "callbacks"
    /\ "process" \in pending
    /\ diary' = Some(DiaryTransform(settings, frontMatter, diary[1], diaryMdArr))
    /\ pending' = pending \ {"process"}
    /\ pc' = IF pending' = {} THEN "idle" ELSE "callbacks"
    /\ hist' = [hist EXCEPT !.writes = @ + 1]
    /\ UNCHANGED <<settings, feed, notes, folders, runs, items, idx,
                   movieNoteLinks, diaryMdArr, frontMatter, note, nhist>>

Next ==
    \/ StartSync
    \/ MovieNoteStep
    \/ RenderEntries
    \/ UpdateDiaryFile
    \/ FrontMatterCallback
    \/ ProcessCallback

Spec == Init /\ [][Next]_vars

----------------------------------------------------------------------------
(* Observations used by the properties of the diary *)

\* the sync in progress has written the diary
Written == hist.writes = 1

\* hist.repeat: the sync in progress follows a sync that wrote the diary, so
\* hist.before is the diary that sync produced

\* the last sync ran to its end and nothing of it is pending
SyncOver == pc = "idle" /\ runs > 0

\* the sync in progress merged into a diary that existed
Merged == Written /\ hist.before # None

\* the lines of a document's body
BodyLines(text) == Split(BodyOf(text))

\* the lines of the body of the diary the sync in progress started from
OldLines == IF hist.before = None THEN <<>> ELSE BodyLines(hist.before[1])

\* the entry the sync in progress renders for an item
EntryOf(item) ==
    generateDiaryEntry(settings, item,
        IF settings.createMovieNotes THEN InternalLink(item) ELSE <<>>)

IsLine(entry) == NL \notin Range(entry)

NoDuplicates(arr) == \A i, j \in 1..Len(arr) : arr[i] = arr[j] => i = j

\* the permutations of a set, as sequences
Perms(S) == {w \in [1..Cardinality(S) -> S] : \A i, j \in DOMAIN w : w[i] = w[j] => i = j}

ScenarioBDiary ==
    Some(Join(<<generateDiaryEntry(DefaultSettings, Item1, <<>>),
                generateDiaryEntry(DefaultSettings, Item2, <<>>)>>))

ScenarioB ==
    /\ settings = DefaultSettings
    /\ hist.before = ScenarioBDiary
    /\ feed = <<Item2, Item4>>

----------------------------------------------------------------------------
(* Properties of the diary and of the sync *)

\* C1: a second sync with the same feed items, against the diary the first
\* sync produced, leaves the diary text as the first sync left it.
C1_DiaryIdempotent ==
    (hist.repeat /\ Written) => diary = hist.before

\* C3: a line L of the existing body that the batch contains occurs in the
\* merged body as often as before; a batch of lines that are all present
\* leaves the number of body lines unchanged; Scenario B yields the two
\* original lines and exactly one line for the new item.
C3_DedupByLine ==
    Merged =>
        LET old == OldLines
            after == BodyLines(diary[1])
        IN  /\ \A L \in Range(old) \cap Range(diaryMdArr) : Count(after, L) = Count(old, L)
            /\ Range(diaryMdArr) \subseteq Range(old) => Len(after) = Len(old)
            /\ ScenarioB => after = old \o <<generateDiaryEntry(DefaultSettings, Item4, <<>>)>>

\* C3 witness: a merge whose batch holds a line already in the body together
\* with a line that is not (Scenario B)
C3_Witness ==
    /\ Merged
    /\ ScenarioB
    /\ Range(OldLines) \cap Range(diaryMdArr) # {}
    /\ ~(Range(diaryMdArr) \subseteq Range(OldLines))

\* C4: when the existing body has no duplicate line, the written diary holds
\* every old line exactly once and every distinct new line exactly once.
C4_EveryLineOnce ==
    (Written /\ NoDuplicates(OldLines)) =>
        LET old == OldLines
            after == BodyLines(diary[1])
        IN  /\ \A L \in Range(old) : Count(after, L) = 1
            /\ \A e \in Range(diaryMdArr) : IsLine(e) => Count(after, e) = 1

\* C5: the entries not yet present follow the existing body lines in
\* ascending publish-date order when sort is 'Old', and precede them in
\* descending publish-date order when sort is 'New'; the existing body lines
\* stay together in their order.
C5_OrderPreserved ==
    (Written /\ \A i \in 1..Len(feed) : CanRender(feed[i])) =>
        LET old == OldLines
            oldSet == Range(old)
            entry == [i \in 1..Len(feed) |-> EntryOf(feed[i])]
            fresh == {i \in 1..Len(feed) : entry[i] \notin oldSet}
            Ordered(w) == \A a, b \in DOMAIN w : a < b =>
                              IF settings.sort = "Old"
                              THEN feed[w[a]].pubDate <= feed[w[b]].pubDate
                              ELSE feed[w[a]].pubDate >= feed[w[b]].pubDate
            Entries(w) == [a \in DOMAIN w |-> entry[w[a]]]
            text == diary[1]
        IN  \E w \in Perms(fresh) :
                /\ Ordered(w)
                /\ IF settings.sort = "Old"
                   THEN EndsWith(text, Join(old \o Entries(w)))
                   ELSE /\ StartsWith(BodyOf(text), Join(Entries(w) \o (IF hist.before = None THEN <<>> ELSE << <<>> >>)))
                        /\ EndsWith(text, Join((IF w = <<>> THEN <<>> ELSE << <<>> >>) \o old))

\* C5 witness: a merge that placed two new entries of different publish dates
\* around an existing body
C5_Witness ==
    /\ Merged
    /\ Len(OldLines) >= 2
    /\ \E i, j \in 1..Len(feed) :
          /\ feed[i].pubDate < feed[j].pubDate
          /\ CanRender(feed[i]) /\ CanRender(feed[j])
          /\ EntryOf(feed[i]) \notin Range(OldLines)
          /\ EntryOf(feed[j]) \notin Range(OldLines)

\* C7: when the existing diary has a non-empty frontmatter block, the written
\* text begins with that block, followed by the merged body.
C7_FrontmatterAtHead ==
    (Merged /\ ParseFrontMatter(hist.before[1]) # <<>>) =>
        StartsWith(diary[1], objToFrontmatter(ParseFrontMatter(hist.before[1])))

\* C9: a sync skips an item that lacks its film title or film year and still
\* merges every other item of the batch into the diary, and into its movie
\* note when movie notes are enabled.
C9_SkipsOnlyOffender ==
    (pc \in {"idle", "failed"} /\ runs > 0) =>
        \A i \in 1..Len(feed) :
            CanMakeNote(feed[i]) =>
                /\ diary # None
                /\ Includes(diary[1], EntryOf(feed[i]))
                /\ settings.createMovieNotes => notes[NotePath(feed[i])] # None

\* C10: with movie notes enabled the note merges run one item at a time in the
\* order of the items; an item's note is merged before its diary entry is
\* rendered, so the entry carries the internal link and not the external one;
\* the diary is written once per sync, after every note merge.
C10_Sequencing ==
    LET guids == [i \in 1..Len(items) |-> items[i].guid]
    IN  /\ hist.writes <= 1
        /\ SyncOver => Written
        /\ settings.createMovieNotes =>
              /\ Len(hist.noteLog) <= Len(guids)
              /\ hist.noteLog = SubSeq(guids, 1, Len(hist.noteLog))
              /\ pc = "notes" => Len(hist.noteLog) = idx - 1
              /\ diaryMdArr # <<>> =>
                    /\ hist.noteLog = guids
                    /\ \A i \in 1..Len(items) :
                          /\ Includes(diaryMdArr[i], InternalLink(items[i]))
                          /\ items[i].link \notin Range(diaryMdArr[i])
              /\ Written => hist.noteLog = guids /\ diaryMdArr # <<>>

\* C10 witness: a finished sync that merged two notes and then wrote the diary
C10_Witness ==
    /\ SyncOver
    /\ settings.createMovieNotes
    /\ Len(hist.noteLog) = 2
    /\ Written

\* the folder a path names for its document: the path without its last segment
ParentFolder(path) ==
    LET pathArray == SplitOn(path, <<"/">>)
    IN  JoinWith(SubSeq(pathArray, 1, Len(pathArray) - 1), <<"/">>)

\* the sync in progress created the diary
Created == Written /\ hist.before = None

\* C11: a sync that finds no diary at the configured path creates it with the
\* new entries joined by newlines, and when the path has one or more parent
\* segments the parent folder exists once the file is created.
C11_CreatedWithParents ==
    Created =>
        /\ diary = Some(Join(diaryMdArr))
        /\ ParentFolder(settings.path) # <<>> => ParentFolder(settings.path) \in folders

----------------------------------------------------------------------------
(* Merging into one movie note: the note of film A, merged into by a        *)
(* sequence of createOrUpdateMovieNote calls                                *)

\* the items of film A
NoteItems == {Item1, Item3, Item4, Item7, Item8}

OldActivity == <<"-", " ", "**Watched:**", " ", "[[", "2023-12-31", "]]", " ",
                 "**Rating:**", " ", "-", " ", "**Rewatch:**", " ", "No">>

\* the note before the first merge: absent; user text without the managed
\* heading, plain or ending in white space; user text around a managed
\* section, plain or with runs of blank lines
InitialNotes ==
    {None,
     Some(<<"Intro">>),
     Some(<<"Intro", " ", NL, NL>>),
     Some(Join(<< <<"#", " ", "Alien">>, <<>>, <<"Intro">>, <<>>,
                  mainHeader, <<>>, reviewHeader, <<>>, <<">", " ", "Old", " ", "review">>, <<>>,
                  activityHeader, <<>>, OldActivity, <<>>,
                  <<"#", "#", " ", "Cast">>, <<>>, <<"Sigourney">> >>)),
     Some(Join(<< <<"Intro">>, <<>>, <<>>, <<>>, <<"More">>,
                  mainHeader, <<>>, activityHeader, <<>>, OldActivity, <<>>,
                  <<"#", "#", " ", "Cast">>, <<>>, <<>>, <<>>, <<"Sigourney">> >>))}

NoNoteHist == [merges |-> 0, prev |-> None, created |-> FALSE, rebuildIn |-> None,
               lastItem |-> None, prevItem |-> None, mergedLines |-> <<>>]

NoteInit ==
    /\ note \in InitialNotes
    /\ nhist = NoNoteHist
    /\ settings = DefaultSettings
    /\ feed = <<>>
    /\ diary = None
    /\ notes = [p \in NotePaths |-> None]
    /\ folders = {}
    /\ pc = "idle"
    /\ runs = 0
    /\ items = <<>>
    /\ idx = 1
    /\ movieNoteLinks = <<>>
    /\ diaryMdArr = <<>>
    /\ frontMatter = <<>>
    /\ pending = {}
    /\ hist = NoHist

\* createOrUpdateMovieNote(item) on the note of film A
MergeItem(item) ==
    /\ nhist.merges < MaxMerges
    /\ note' = createOrUpdateMovieNote(settings, note, item)
    /\ nhist' = [merges |-> nhist.merges + 1,
                 prev |-> note,
                 created |-> nhist.created \/ note = None,
                 rebuildIn |-> IF note = None THEN None
                               ELSE Some(UpdateNoteFrontMatter(note[1], item)),
                 lastItem |-> Some(item),
                 prevItem |-> nhist.lastItem,
                 mergedLines |->
                    IF (nhist.created \/ note = None)
                       /\ Trim(ActivityLine(settings, item)) \notin Range(nhist.mergedLines)
                    THEN Append(nhist.mergedLines, Trim(ActivityLine(settings, item)))
                    ELSE nhist.mergedLines]
    /\ UNCHANGED syncVars

NoteNext == \E item \in NoteItems : MergeItem(item)

NoteSpec == NoteInit /\ [][NoteNext]_vars

----------------------------------------------------------------------------
(* Observations used by the properties of the movie note *)

\* index of the managed heading among the lines, or 0
HeadingIndex(lines) ==
    LET found == {i \in 1..Len(lines) : Trim(lines[i]) = mainHeader}
    IN  IF found = {} THEN 0 ELSE Min(found)

\* index of the first level-1 or level-2 heading after line h, or Len + 1
BoundaryIndex(lines, h) ==
    LET ends == {i \in (h + 1)..Len(lines) : IsH1OrH2(lines[i])}
    IN  IF ends = {} THEN Len(lines) + 1 ELSE Min(ends)

\* the text strictly before the managed heading line
TextBefore(text) ==
    LET lines == Split(text)
        h == HeadingIndex(lines)
    IN  JoinWith([i \in 1..(h - 1) |-> lines[i] \o <<NL>>], <<>>)

\* the text from the section's end boundary onwards
TextAfter(text) ==
    LET lines == Split(text)
        e == BoundaryIndex(lines, HeadingIndex(lines))
    IN  Join(SubSeq(lines, e, Len(lines)))

\* the non-blank lines under the '### Activity' line of the managed section
ActivitySubsection(text) ==
    LET lines == Split(text)
        h == HeadingIndex(lines)
        e == BoundaryIndex(lines, h)
        heads == {i \in (h + 1)..(e - 1) : Trim(lines[i]) = activityHeader}
    IN  IF h = 0 \/ heads = {} THEN <<>>
        ELSE LET a == Min(heads)
                 stops == {i \in (a + 1)..(e - 1) : StartsWith(Trim(lines[i]), <<"#">>)}
                 z == IF stops = {} THEN e - 1 ELSE Min(stops) - 1
             IN  SelectSeq([i \in 1..(z - a) |-> Trim(lines[a + i])], LAMBDA l : l # <<>>)

----------------------------------------------------------------------------
(* Properties of the movie note *)

\* C2: merging an item into its note a second time leaves the note text as
\* the first merge left it.
C2_NoteIdempotent ==
    (nhist.lastItem # None /\ nhist.lastItem = nhist.prevItem) => note = nhist.prev

\* C6: a merge by rebuildMovieNoteContent leaves the text before the managed
\* heading and the text from the section's end boundary onwards as they
\* were; when the heading is absent the whole text stays ahead of the new
\* section.
C6_SectionIsolation ==
    nhist.rebuildIn # None =>
        LET in == nhist.rebuildIn[1]
            out == note[1]
        IN  IF HeadingIndex(Split(in)) = 0
            THEN StartsWith(out, in)
            ELSE /\ StartsWith(out, TextBefore(in) \o mainHeader)
                 /\ EndsWith(out, TextAfter(in))
                 /\ TextBefore(out) = TextBefore(in)
                 /\ TextAfter(out) = TextAfter(in)

\* C8: in a note created by createOrUpdateMovieNote the Activity subsection
\* holds each distinct merged activity line exactly once, in the order of
\* first merge.
C8_ActivityDeduplicated ==
    nhist.created => ActivitySubsection(note[1]) = nhist.mergedLines

\* index, among the lines, of the first line of the managed section that is
\* the given sub-heading, or 0
SubHeadingIndex(lines, header) ==
    LET h == HeadingIndex(lines)
        e == BoundaryIndex(lines, h)
        heads == {i \in (h + 1)..(e - 1) : Trim(lines[i]) = header}
    IN  IF h = 0 \/ heads = {} THEN 0 ELSE Min(heads)

\* the non-blank lines under the '### Review' line of the managed section, up
\* to the next heading line
ReviewSubsection(text) ==
    LET lines == Split(text)
        e == BoundaryIndex(lines, HeadingIndex(lines))
        r == SubHeadingIndex(lines, reviewHeader)
    IN  IF r = 0 THEN <<>>
        ELSE LET stops == {i \in (r + 1)..(e - 1) : StartsWith(Trim(lines[i]), <<"#">>)}
                 z == IF stops = {} THEN e - 1 ELSE Min(stops) - 1
             IN  SelectSeq(SubSeq(lines, r + 1, z), LAMBDA l : Trim(l) # <<>>)

\* the last merge went through rebuildMovieNoteContent into a note that had
\* the managed section
MergedIntoSection ==
    nhist.rebuildIn # None /\ HeadingIndex(Split(nhist.rebuildIn[1])) > 0

\* C12: after a merge into a note that has the managed section, the Review
\* subsection holds the new review block when a non-empty one is supplied,
\* and otherwise the non-blank lines of the review the section held before;
\* the Review subsection stands ahead of the Activity subsection.
C12_ReviewRetained ==
    MergedIntoSection =>
        LET reviewBlock == extractReviewBlockquote(nhist.lastItem[1].paragraphs)
            before == ReviewSubsection(nhist.rebuildIn[1])
            after == ReviewSubsection(note[1])
            lines == Split(note[1])
        IN  /\ reviewBlock # <<>> => after = Split(reviewBlock)
            /\ reviewBlock = <<>> => after = before
            /\ after # <<>> =>
                  SubHeadingIndex(lines, reviewHeader) < SubHeadingIndex(lines, activityHeader)

====
